---- MODULE Spec2Model ----
(***************************************************************************)
(* MemoryPool (src/memory_pool.cpp): a fixed-block allocator with a        *)
(* lock-free free list (std::atomic<Node*> freeList), chunks obtained with *)
(* std::malloc and recorded in std::vector<void*> allocatedChunks.         *)
(*                                                                         *)
(* Memory is modelled by byte addresses.  Chunk number c lives at          *)
(* Base(c) = c * ChunkStride; a free-list link is SizeofNode bytes stored  *)
(* at the block's address.  Each thread runs allocate / deallocate /       *)
(* allocateChunk step by step, one step per access to shared memory.       *)
(***************************************************************************)
EXTENDS Integers, Sequences, FiniteSets, TLC

\* ---------------------------------------------------------------- bounds
NumThreads == 2        \* threads of the concurrent specification
NumPools == 2          \* pool objects of the lifecycle specification
MaxChunks == 2         \* chunk addresses of the model (heap of the lifecycle spec)
ConcMaxChunks == 2     \* successful mallocs the heap serves (concurrent spec)
GrowMaxChunks == 3     \* successful mallocs the heap serves (growth spec)
SeqMaxChunks == 3      \* successful mallocs the heap serves (sequential spec)
ChunkStride == 100     \* distance between the base addresses of two chunks
ConcBlockCount == 1    \* blockCount of the shared pool (concurrent spec)
ConcMaxHeld == 2       \* blocks one thread holds at a time (concurrent spec)
MaxBlockCount == 2     \* largest blockCount constructed (sequential specs)
SeqMaxHeld == 3        \* blocks the single thread holds at a time
LifeMaxBlockCount == 1 \* largest blockCount constructed (lifecycle spec)
LifeMaxHeld == 1       \* blocks the single thread holds at a time (lifecycle spec)
StackDepth == 2        \* nested calls of allocate the thread's stack has room for
MovedMaxChunks == 4    \* successful mallocs the heap serves (moved-from spec)

\* ------------------------------------------------------ program constants
SizeofNode == 8        \* sizeof(Node): one pointer
Null == 0              \* nullptr
Garbage == -1          \* a wild, non-null pointer value (a clobbered link)

Threads == 1..NumThreads
Pools == 1..NumPools

\* block sizes requested at construction
SeqBlockSizes == {SizeofNode, 2 * SizeofNode}
SmallBlockSizes == {SizeofNode \div 2, SizeofNode}
BlockCounts == 1..MaxBlockCount

VARIABLES
    poolState,        \* [Pools -> "none" | "constructing" | "alive" | "destroyed"]
    freeList,         \* [Pools -> address]            std::atomic<Node*> freeList
    allocatedChunks,  \* [Pools -> Seq(address)]       std::vector<void*>
    blockSize,        \* [Pools -> Nat]                 member blockSize
    blockCount,       \* [Pools -> Nat]                 member blockCount
    heap,             \* Seq([state, size, frees, lost]) what malloc handed
                      \*   out: chunk c is "live" or "freed", size bytes long,
                      \*   std::free was called on it frees times, and lost
                      \*   says an exception dropped the only pointer to it
    mem,              \* [written addresses -> link]    Node::next of each block
    frame,            \* [Threads -> record]            position and locals
    held,             \* [Threads -> SUBSET address]    blocks the caller holds
    acquired,         \* [Pools -> Nat] chunks malloc has handed to calls on the
                      \*   pool object now at this place
    freshAllocs,      \* [Pools -> Int] allocate calls returned on the pool
                      \*   while no deallocate was called and no call threw;
                      \*   -1 afterwards
    last,             \* the pool-lifetime operation just performed, if any
    heapLimit,        \* how many chunks malloc can serve before it fails
    fault             \* TRUE once a wild pointer was dereferenced

vars == <<poolState, freeList, allocatedChunks, blockSize, blockCount, heap,
          mem, frame, held, freshAllocs, acquired, last, heapLimit, fault>>

\* ---------------------------------------------------------------- helpers
Range(s) == {s[k] : k \in DOMAIN s}

Base(c) == c * ChunkStride

ChunkOf(a) == a \div ChunkStride

\* depth: how many times the allocate call in progress has gone through
\* "allocateChunk(); return allocate();", i.e. how deep it is nested in
\* itself; start: the free-list head when that call was made
IdleFrame ==
    [pc |-> "idle", self |-> 0, ctx |-> "none", head |-> Null, nxt |-> Null,
     node |-> Null, chunk |-> Null, i |-> 0, sz |-> 0, depth |-> 0,
     start |-> Null]

NoOp == [op |-> "none", dst |-> 0, src |-> 0]

Quiescent == \A t \in Threads : frame[t].pc = "idle"

\* the addresses allocateChunk carves out of the chunk at base
BlocksOf(base, bs, bc) == {base + k * bs : k \in 0..(bc - 1)}

\* every block of every chunk recorded in allocatedChunks[p]
PoolBlocks(p) ==
    UNION {BlocksOf(allocatedChunks[p][k], blockSize[p], blockCount[p]) :
           k \in DOMAIN allocatedChunks[p]}

\* the chunks malloc has handed out so far (live or freed)
Chunks == DOMAIN heap

\* a store of hi - lo bytes at lo: every link whose SizeofNode bytes
\* overlap [lo, hi) is overwritten with unrelated bytes
Clobber(m, lo, hi) ==
    [a \in DOMAIN m |-> IF a < hi /\ a + SizeofNode > lo THEN Garbage ELSE m[a]]

\* (a store that overwrites the link of the old head v as well)
WriteLink_AndHead(m, a, v) ==
    [x \in DOMAIN m \cup {a} |->
        IF x = a THEN v ELSE IF x = v THEN Garbage ELSE m[x]]

\* node->next = v : a SizeofNode-byte store at address node
WriteLink(m, a, v) ==
    [x \in DOMAIN m \cup {a} |->
        IF x = a THEN v ELSE Clobber(m, a, a + SizeofNode)[x]]

\* does the link stored at a run past the end of its chunk?
Overruns(a) ==
    LET c == ChunkOf(a)
    IN  \/ c \notin Chunks
        \/ heap[c].state # "live"
        \/ a + SizeofNode > Base(c) + heap[c].size

\* blocks reached by following next links from a, stopping at nullptr, at a
\* wild pointer or at a block already visited
RECURSIVE Reach(_, _)
Reach(a, seen) ==
    IF a = Null \/ a = Garbage \/ a \in seen \/ a \notin DOMAIN mem
    THEN seen
    ELSE Reach(mem[a], seen \cup {a})

\* where that walk stops: Null for a well-formed list
RECURSIVE WalkEnd(_, _)
WalkEnd(a, seen) ==
    IF a = Null \/ a = Garbage \/ a \in seen \/ a \notin DOMAIN mem
    THEN a
    ELSE WalkEnd(mem[a], seen \cup {a})

FreeBlocks(p) == Reach(freeList[p], {})

FreeListOK(p) == WalkEnd(freeList[p], {}) = Null

HeldBlocks == UNION {held[t] : t \in Threads}

\* ------------------------------------------------------------------- Init
InitHeap(limit) ==
    /\ heapLimit = limit
    /\ poolState = [p \in Pools |-> "none"]
    /\ freeList = [p \in Pools |-> Null]
    /\ allocatedChunks = [p \in Pools |-> <<>>]
    /\ blockSize = [p \in Pools |-> 0]
    /\ blockCount = [p \in Pools |-> 0]
    /\ heap = <<>>
    /\ mem = <<>>
    /\ frame = [t \in Threads |-> IdleFrame]
    /\ held = [t \in Threads |-> {}]
    /\ freshAllocs = [p \in Pools |-> 0]
    /\ acquired = [p \in Pools |-> 0]
    /\ last = NoOp
    /\ fault = FALSE

Init == InitHeap(ConcMaxChunks)

\* ------------------------------------------------------------ constructor
\* MemoryPool(size_t blockSize, size_t blockCount): the member is set from the
\* parameter in the initializer list; the body's clamp assigns to the
\* parameter, which shadows the member, so the member keeps the request.
CtorBlockSize(bsArg) ==
    LET member == bsArg
        param == IF bsArg < SizeofNode THEN SizeofNode ELSE bsArg
    IN  member

Construct(t, p, bsArg, bcArg) ==
    /\ ~fault
    /\ Quiescent
    /\ poolState[p] = "none"
    /\ poolState' = [poolState EXCEPT ![p] = "constructing"]
    /\ blockSize' = [blockSize EXCEPT ![p] = CtorBlockSize(bsArg)]
    /\ blockCount' = [blockCount EXCEPT ![p] = bcArg]
    /\ freeList' = [freeList EXCEPT ![p] = Null]
    /\ allocatedChunks' = [allocatedChunks EXCEPT ![p] = <<>>]
    /\ freshAllocs' = [freshAllocs EXCEPT ![p] = 0]
    /\ acquired' = [acquired EXCEPT ![p] = 0]
    /\ frame' = [frame EXCEPT ![t] =
                    [IdleFrame EXCEPT !.pc = "C_malloc", !.self = p, !.ctx = "ctor"]]
    /\ last' = NoOp
    /\ UNCHANGED heapLimit
    /\ UNCHANGED <<heap, mem, held, fault>>

\* ---------------------------------------------------------- allocateChunk
\* (a failed malloc swallowed, the call starting over)
MallocFail_Retry(t) ==
    /\ ~fault
    /\ frame[t].pc = "C_malloc"
    /\ frame' = [frame EXCEPT ![t].pc = IF frame[t].ctx = "ctor"
                                        THEN "C_pbread" ELSE "A_load"]
    /\ last' = NoOp
    /\ UNCHANGED <<poolState, blockSize, blockCount, freeList, allocatedChunks,
                   heap, mem, held, freshAllocs, acquired, heapLimit, fault>>

\* std::malloc returned nullptr: throw std::bad_alloc.  Nothing was recorded
\* yet; a constructor that throws leaves no object behind.
MallocFail(t) ==
    LET p == frame[t].self IN
    /\ ~fault
    /\ frame[t].pc = "C_malloc"
    /\ frame' = [frame EXCEPT ![t] = [IdleFrame EXCEPT !.pc = "threw"]]
    /\ IF frame[t].ctx = "ctor"
       THEN /\ poolState' = [poolState EXCEPT ![p] = "none"]
            /\ blockSize' = [blockSize EXCEPT ![p] = 0]
            /\ blockCount' = [blockCount EXCEPT ![p] = 0]
            /\ freshAllocs' = [freshAllocs EXCEPT ![p] = 0]
            /\ acquired' = [acquired EXCEPT ![p] = 0]
       ELSE /\ UNCHANGED <<poolState, blockSize, blockCount>>
            /\ freshAllocs' = [freshAllocs EXCEPT ![p] = -1]
            /\ UNCHANGED acquired
    /\ last' = NoOp
    /\ UNCHANGED heapLimit
    /\ UNCHANGED <<freeList, allocatedChunks, heap, mem, held, fault>>

\* std::malloc(blockSize * blockCount) succeeded
MallocOk(t) ==
    LET p == frame[t].self
        c == Len(heap) + 1
    IN
    /\ ~fault
    /\ frame[t].pc = "C_malloc"
    /\ Len(heap) < heapLimit
    /\ heap' = Append(heap, [state |-> "live", frees |-> 0, lost |-> FALSE,
                             size |-> blockSize[p] * blockCount[p]])
    /\ frame' = [frame EXCEPT ![t].pc = "C_pbread", ![t].chunk = Base(c)]
    /\ last' = NoOp
    /\ UNCHANGED heapLimit
    /\ UNCHANGED <<poolState, freeList, allocatedChunks, blockSize, blockCount,
                   mem, held, freshAllocs, fault>>
    /\ acquired' = [acquired EXCEPT ![frame[t].self] = @ + 1]

\* allocatedChunks.push_back(chunk) has to grow the vector's buffer and that
\* allocation fails: std::bad_alloc leaves push_back and allocateChunk, the
\* vector is unchanged and the chunk just obtained is recorded nowhere.
PushBackFail(t) ==
    LET p == frame[t].self IN
    /\ ~fault
    /\ frame[t].pc = "C_pbread"
    /\ frame' = [frame EXCEPT ![t] = [IdleFrame EXCEPT !.pc = "threw"]]
    /\ IF frame[t].ctx = "ctor"
       THEN /\ poolState' = [poolState EXCEPT ![p] = "none"]
            /\ blockSize' = [blockSize EXCEPT ![p] = 0]
            /\ blockCount' = [blockCount EXCEPT ![p] = 0]
            /\ freshAllocs' = [freshAllocs EXCEPT ![p] = 0]
            /\ acquired' = [acquired EXCEPT ![p] = 0]
       ELSE /\ UNCHANGED <<poolState, blockSize, blockCount>>
            /\ freshAllocs' = [freshAllocs EXCEPT ![p] = -1]
            /\ UNCHANGED acquired
    /\ heap' = [heap EXCEPT ![ChunkOf(frame[t].chunk)].lost = TRUE]
    /\ last' = NoOp
    /\ UNCHANGED <<freeList, allocatedChunks, mem, held, heapLimit, fault>>

\* allocatedChunks.push_back(chunk), first half: read the end of the vector.
\* push_back is not atomic and nothing orders two threads' calls.
PushBackRead(t) ==
    LET p == frame[t].self IN
    /\ ~fault
    /\ frame[t].pc = "C_pbread"
    /\ frame' = [frame EXCEPT ![t].pc = "C_pbwrite",
                              ![t].sz = Len(allocatedChunks[p])]
    /\ last' = NoOp
    /\ UNCHANGED heapLimit
    /\ UNCHANGED <<poolState, freeList, allocatedChunks, blockSize, blockCount,
                   heap, mem, held, freshAllocs, acquired, fault>>

\* (the loop entered with the chunk not recorded)
PushBackWrite_Skipped(t) ==
    /\ ~fault
    /\ frame[t].pc = "C_pbwrite"
    /\ frame' = [frame EXCEPT ![t].pc = "C_loop", ![t].i = 0, ![t].sz = 0]
    /\ last' = NoOp
    /\ UNCHANGED heapLimit
    /\ UNCHANGED <<poolState, freeList, allocatedChunks, blockSize, blockCount,
                   heap, mem, held, freshAllocs, acquired, fault>>

\* push_back, second half: store the element at the end that was read and
\* set the new end one past it; then enter the loop with i = 0
PushBackWrite(t) ==
    LET p == frame[t].self IN
    /\ ~fault
    /\ frame[t].pc = "C_pbwrite"
    /\ allocatedChunks' = [allocatedChunks EXCEPT ![p] =
            Append(SubSeq(allocatedChunks[p], 1, frame[t].sz), frame[t].chunk)]
    /\ frame' = [frame EXCEPT ![t].pc = "C_loop", ![t].i = 0, ![t].sz = 0]
    /\ last' = NoOp
    /\ UNCHANGED heapLimit
    /\ UNCHANGED <<poolState, freeList, blockSize, blockCount, heap,
                   mem, held, freshAllocs, acquired, fault>>

\* the loop condition i < blockCount
LoopContinues_OffByOne(i, bc) == i + 1 < bc

LoopContinues(i, bc) == i < bc

\* the argument block + i * blockSize
BlockAddr_NoScale(chunk, i, bs) == chunk + i

\* (a chunk of two blocks carved from its second block down)
BlockAddr_Reversed(chunk, i, bs) == chunk + (1 - i) * bs

BlockAddr(chunk, i, bs) == chunk + i * bs

\* for (i = 0; i < blockCount; ++i) deallocate(block + i * blockSize)
ChunkLoopBody(t) ==
    LET p == frame[t].self IN
    /\ ~fault
    /\ frame[t].pc = "C_loop"
    /\ LoopContinues(frame[t].i, blockCount[p])
    /\ frame' = [frame EXCEPT ![t].pc = "D_load",
                    ![t].node = BlockAddr(frame[t].chunk, frame[t].i, blockSize[p])]
    /\ last' = NoOp
    /\ UNCHANGED heapLimit
    /\ UNCHANGED <<poolState, freeList, allocatedChunks, blockSize, blockCount,
                   heap, mem, held, freshAllocs, acquired, fault>>

\* the loop is over and allocateChunk returns: the constructor is done, or
\* allocate goes on with "return allocate();"
ChunkLoopExit(t) ==
    LET p == frame[t].self IN
    /\ ~fault
    /\ frame[t].pc = "C_loop"
    /\ ~LoopContinues(frame[t].i, blockCount[p])
    /\ IF frame[t].ctx = "ctor"
       THEN /\ poolState' = [poolState EXCEPT ![p] = "alive"]
            /\ frame' = [frame EXCEPT ![t] = IdleFrame]
       ELSE /\ UNCHANGED poolState
            /\ frame' = [frame EXCEPT ![t] =
                   [IdleFrame EXCEPT !.pc = "A_load", !.self = p, !.ctx = "allocate",
                                     !.depth = frame[t].depth + 1,
                                     !.start = frame[t].start]]
    /\ last' = NoOp
    /\ UNCHANGED heapLimit
    /\ UNCHANGED <<freeList, allocatedChunks, blockSize, blockCount, heap,
                   mem, held, freshAllocs, acquired, fault>>

\* "return allocate();" is a call: in a build that does not turn it into a
\* jump every pass through it takes another stack frame, and the call that
\* finds no room left brings the process down.  (A build that reuses the
\* frame goes on with ChunkLoopExit.)
StackOverflow(t) ==
    LET p == frame[t].self IN
    /\ ~fault
    /\ frame[t].pc = "C_loop"
    /\ frame[t].ctx = "allocate"
    /\ ~LoopContinues(frame[t].i, blockCount[p])
    /\ frame[t].depth + 1 > StackDepth
    /\ fault' = TRUE
    /\ last' = NoOp
    /\ UNCHANGED <<poolState, freeList, allocatedChunks, blockSize, blockCount,
                   heap, mem, frame, held, freshAllocs, acquired, heapLimit>>

\* ------------------------------------------------------------- deallocate
\* deallocate(ptr) called by the holder of ptr; the block is the pool's again
DeallocateCall(t, p, b) ==
    /\ ~fault
    /\ frame[t].pc = "idle"
    /\ poolState[p] = "alive"
    /\ b \in held[t]
    /\ Base(ChunkOf(b)) \in Range(allocatedChunks[p])
    /\ held' = [held EXCEPT ![t] = held[t] \ {b}]
    /\ frame' = [frame EXCEPT ![t] =
           [IdleFrame EXCEPT !.pc = "D_load", !.self = p, !.ctx = "deallocate",
                             !.node = b]]
    /\ freshAllocs' = [freshAllocs EXCEPT ![p] = -1]
    /\ UNCHANGED acquired
    /\ last' = NoOp
    /\ UNCHANGED heapLimit
    /\ UNCHANGED <<poolState, freeList, allocatedChunks, blockSize, blockCount,
                   heap, mem, fault>>

\* Node* head = freeList.load(acquire)
DeallocLoad(t) ==
    LET p == frame[t].self IN
    /\ ~fault
    /\ frame[t].pc = "D_load"
    /\ frame' = [frame EXCEPT ![t].pc = "D_store", ![t].head = freeList[p]]
    /\ last' = NoOp
    /\ UNCHANGED heapLimit
    /\ UNCHANGED <<poolState, freeList, allocatedChunks, blockSize, blockCount,
                   heap, mem, held, freshAllocs, acquired, fault>>

\* node->next = head.  A store that runs past the end of the chunk is a heap
\* overflow: it may go unnoticed or bring the process down.
DeallocStore(t) ==
    /\ ~fault
    /\ frame[t].pc = "D_store"
    /\ mem' = WriteLink(mem, frame[t].node, frame[t].head)
    /\ frame' = [frame EXCEPT ![t].pc = "D_cas"]
    /\ fault' \in (IF Overruns(frame[t].node) THEN BOOLEAN ELSE {FALSE})
    /\ last' = NoOp
    /\ UNCHANGED heapLimit
    /\ UNCHANGED <<poolState, freeList, allocatedChunks, blockSize, blockCount,
                   heap, held, freshAllocs, acquired>>

\* where deallocate returns to: its caller, or the loop of allocateChunk
AfterPush(f) ==
    IF f.ctx = "deallocate"
    THEN IdleFrame
    ELSE [f EXCEPT !.pc = "C_loop", !.i = f.i + 1, !.head = Null, !.node = Null]

\* (a plain store of node, whatever the head is by now)
DeallocCasOk_Blind(t) ==
    LET p == frame[t].self IN
    /\ ~fault
    /\ frame[t].pc = "D_cas"
    /\ freeList' = [freeList EXCEPT ![p] = frame[t].node]
    /\ frame' = [frame EXCEPT ![t] = AfterPush(frame[t])]
    /\ last' = NoOp
    /\ UNCHANGED heapLimit
    /\ UNCHANGED <<poolState, allocatedChunks, blockSize, blockCount, heap,
                   mem, held, freshAllocs, acquired, fault>>

\* freeList.compare_exchange_weak(head, node) succeeded
DeallocCasOk(t) ==
    LET p == frame[t].self IN
    /\ ~fault
    /\ frame[t].pc = "D_cas"
    /\ freeList[p] = frame[t].head
    /\ freeList' = [freeList EXCEPT ![p] = frame[t].node]
    /\ frame' = [frame EXCEPT ![t] = AfterPush(frame[t])]
    /\ last' = NoOp
    /\ UNCHANGED heapLimit
    /\ UNCHANGED <<poolState, allocatedChunks, blockSize, blockCount, heap,
                   mem, held, freshAllocs, acquired, fault>>

\* compare_exchange_weak failed (the head differs, or spuriously): head is
\* reloaded and the do-while loop runs again
DeallocCasFail(t) ==
    LET p == frame[t].self IN
    /\ ~fault
    /\ frame[t].pc = "D_cas"
    /\ frame' = [frame EXCEPT ![t].pc = "D_store", ![t].head = freeList[p]]
    /\ last' = NoOp
    /\ UNCHANGED heapLimit
    /\ UNCHANGED <<poolState, freeList, allocatedChunks, blockSize, blockCount,
                   heap, mem, held, freshAllocs, acquired, fault>>

\* --------------------------------------------------------------- allocate
AllocateCall(t, p, maxHeld) ==
    /\ ~fault
    /\ frame[t].pc = "idle"
    /\ poolState[p] = "alive"
    /\ Cardinality(held[t]) < maxHeld
    /\ frame' = [frame EXCEPT ![t] =
           [IdleFrame EXCEPT !.pc = "A_load", !.self = p, !.ctx = "allocate",
                             !.start = freeList[p]]]
    /\ last' = NoOp
    /\ UNCHANGED heapLimit
    /\ UNCHANGED <<poolState, freeList, allocatedChunks, blockSize, blockCount,
                   heap, mem, held, freshAllocs, acquired, fault>>

\* Node* head = freeList.load(acquire)
AllocLoad(t) ==
    LET p == frame[t].self IN
    /\ ~fault
    /\ frame[t].pc = "A_load"
    /\ frame' = [frame EXCEPT ![t].pc = "A_read", ![t].head = freeList[p]]
    /\ last' = NoOp
    /\ UNCHANGED heapLimit
    /\ UNCHANGED <<poolState, freeList, allocatedChunks, blockSize, blockCount,
                   heap, mem, held, freshAllocs, acquired, fault>>

\* the value of head->next, read from memory as it is now
PopNext_Stale(m, h) == h

PopNext(m, h) == m[h]

\* while (head): an empty list sends the call to allocateChunk; otherwise the
\* argument head->next of the compare-exchange is evaluated.  Dereferencing a
\* wild head is a fault.
AllocRead(t) ==
    /\ ~fault
    /\ frame[t].pc = "A_read"
    /\ IF frame[t].head = Null
       THEN /\ frame' = [frame EXCEPT ![t].pc = "C_malloc"]
            /\ UNCHANGED fault
       ELSE IF frame[t].head \notin DOMAIN mem
       THEN /\ fault' = TRUE
            /\ UNCHANGED frame
       ELSE /\ frame' = [frame EXCEPT ![t].pc = "A_cas",
                                      ![t].nxt = PopNext(mem, frame[t].head)]
            /\ UNCHANGED fault
    /\ last' = NoOp
    /\ UNCHANGED heapLimit
    /\ UNCHANGED <<poolState, freeList, allocatedChunks, blockSize, blockCount,
                   heap, mem, held, freshAllocs, acquired>>

\* freeList.compare_exchange_weak(head, head->next) succeeded: return head
AllocCasOk(t) ==
    LET p == frame[t].self IN
    /\ ~fault
    /\ frame[t].pc = "A_cas"
    /\ freeList[p] = frame[t].head
    /\ freeList' = [freeList EXCEPT ![p] = frame[t].nxt]
    /\ held' = [held EXCEPT ![t] = held[t] \cup {frame[t].head}]
    /\ freshAllocs' = [freshAllocs EXCEPT ![p] = IF @ >= 0 THEN @ + 1 ELSE @]
    /\ UNCHANGED acquired
    /\ frame' = [frame EXCEPT ![t] = IdleFrame]
    /\ last' = NoOp
    /\ UNCHANGED heapLimit
    /\ UNCHANGED <<poolState, allocatedChunks, blockSize, blockCount, heap,
                   mem, fault>>

\* (a failed compare-exchange leaving the loop for allocateChunk)
AllocCasFail_Grow(t) ==
    /\ ~fault
    /\ frame[t].pc = "A_cas"
    /\ frame' = [frame EXCEPT ![t].pc = "C_malloc", ![t].head = Null,
                              ![t].nxt = Null]
    /\ last' = NoOp
    /\ UNCHANGED heapLimit
    /\ UNCHANGED <<poolState, freeList, allocatedChunks, blockSize, blockCount,
                   heap, mem, held, freshAllocs, acquired, fault>>

\* compare_exchange_weak failed (the head differs, or spuriously): head is
\* reloaded and while (head) is tested again
AllocCasFail(t) ==
    LET p == frame[t].self IN
    /\ ~fault
    /\ frame[t].pc = "A_cas"
    /\ frame' = [frame EXCEPT ![t].pc = "A_read", ![t].head = freeList[p],
                              ![t].nxt = Null]
    /\ last' = NoOp
    /\ UNCHANGED heapLimit
    /\ UNCHANGED <<poolState, freeList, allocatedChunks, blockSize, blockCount,
                   heap, mem, held, freshAllocs, acquired, fault>>

\* ------------------------------------------------------------ the callers
\* the holder of a block stores its own data in it (Test's x and y lie where
\* the link was): the bytes of the block no longer hold a link
UserWrite(t, p, b) ==
    /\ ~fault
    /\ frame[t].pc = "idle"
    /\ poolState[p] = "alive"
    /\ b \in held[t]
    /\ Base(ChunkOf(b)) \in Range(allocatedChunks[p])
    /\ mem' = Clobber(mem, b, b + blockSize[p])
    /\ mem' # mem
    /\ last' = NoOp
    /\ UNCHANGED heapLimit
    /\ UNCHANGED <<poolState, freeList, allocatedChunks, blockSize, blockCount,
                   heap, frame, held, freshAllocs, acquired, fault>>

\* std::bad_alloc reached the caller of allocate or of the constructor
Catch(t) ==
    /\ ~fault
    /\ frame[t].pc = "threw"
    /\ frame' = [frame EXCEPT ![t] = IdleFrame]
    /\ last' = NoOp
    /\ UNCHANGED heapLimit
    /\ UNCHANGED <<poolState, freeList, allocatedChunks, blockSize, blockCount,
                   heap, mem, held, freshAllocs, acquired, fault>>

\* one step of whatever call thread t is in
Step(t) ==
    \/ MallocFail(t)
    \/ MallocOk(t)
    \/ PushBackFail(t)
    \/ PushBackRead(t)
    \/ PushBackWrite(t)
    \/ ChunkLoopBody(t)
    \/ ChunkLoopExit(t)
    \/ DeallocLoad(t)
    \/ DeallocStore(t)
    \/ DeallocCasOk(t)
    \/ DeallocCasFail(t)
    \/ AllocLoad(t)
    \/ AllocRead(t)
    \/ AllocCasOk(t)
    \/ AllocCasFail(t)
    \/ Catch(t)

\* ------------------------------------------- the concurrent specification
\* The pool is constructed once (the static Test::pool, sizeof(Test) = 8
\* bytes a block); then every thread allocates and deallocates on it.
Next ==
    \/ Construct(1, 1, SizeofNode, ConcBlockCount)
    \/ \E t \in Threads :
        \/ AllocateCall(t, 1, ConcMaxHeld)
        \/ \E b \in held[t] : DeallocateCall(t, 1, b)
        \/ \E b \in held[t] : UserWrite(t, 1, b)
        \/ Step(t)

Spec == Init /\ [][Next]_vars

\* the same, every thread that is inside a call being scheduled again and
\* again (weak fairness of each thread's steps)
SpecFair == Spec /\ \A t \in Threads : WF_vars(Step(t))

\* ------------------------------------------- pool lifetime (quiescent only)
\* std::free(chunk) for every element of a vector, each call counted
FreedHeap(v) ==
    [c \in Chunks |->
        IF Base(c) \in Range(v)
        THEN [heap[c] EXCEPT
                 !.state = "freed",
                 !.frees = @ + Cardinality({k \in DOMAIN v : v[k] = Base(c)})]
        ELSE heap[c]]

\* freed memory holds no links any more, and the callers drop the handles
\* that now dangle
FreedMem(v) ==
    [a \in {x \in DOMAIN mem : Base(ChunkOf(x)) \notin Range(v)} |-> mem[a]]

FreedHeld(v) ==
    [t \in Threads |-> {b \in held[t] : Base(ChunkOf(b)) \notin Range(v)}]

\* ~MemoryPool(): free every chunk of allocatedChunks
Destroy(p) ==
    /\ ~fault
    /\ Quiescent
    /\ poolState[p] = "alive"
    /\ heap' = FreedHeap(allocatedChunks[p])
    /\ mem' = FreedMem(allocatedChunks[p])
    /\ held' = FreedHeld(allocatedChunks[p])
    /\ poolState' = [poolState EXCEPT ![p] = "destroyed"]
    /\ freeList' = [freeList EXCEPT ![p] = Null]
    /\ allocatedChunks' = [allocatedChunks EXCEPT ![p] = <<>>]
    /\ blockSize' = [blockSize EXCEPT ![p] = 0]
    /\ blockCount' = [blockCount EXCEPT ![p] = 0]
    /\ freshAllocs' = [freshAllocs EXCEPT ![p] = -1]
    /\ acquired' = [acquired EXCEPT ![p] = 0]
    /\ last' = [op |-> "destroy", dst |-> p, src |-> 0]
    /\ UNCHANGED <<frame, heapLimit, fault>>

\* what std::move leaves in the source vector: nothing
MovedFromChunks_Copied(v) == v

MovedFromChunks(v) == <<>>

\* what the move operations leave in the source's freeList, blockSize and
\* blockCount
MovedFromHead_Kept(h) == h

MovedFromHead(h) == Null

MovedFromSize(n) == 0

\* MemoryPool(MemoryPool&& other): p is constructed from q
MoveConstruct(p, q) ==
    /\ ~fault
    /\ Quiescent
    /\ p # q
    /\ poolState[p] = "none"
    /\ poolState[q] = "alive"
    /\ poolState' = [poolState EXCEPT ![p] = "alive"]
    /\ freeList' = [freeList EXCEPT ![p] = freeList[q],
                                    ![q] = MovedFromHead(freeList[q])]
    /\ allocatedChunks' = [allocatedChunks EXCEPT
                              ![p] = allocatedChunks[q],
                              ![q] = MovedFromChunks(allocatedChunks[q])]
    /\ blockSize' = [blockSize EXCEPT ![p] = blockSize[q],
                                      ![q] = MovedFromSize(blockSize[q])]
    /\ blockCount' = [blockCount EXCEPT ![p] = blockCount[q],
                                        ![q] = MovedFromSize(blockCount[q])]
    /\ freshAllocs' = [freshAllocs EXCEPT ![p] = -1, ![q] = -1]
    /\ acquired' = [acquired EXCEPT ![p] = acquired[q], ![q] = 0]
    /\ last' = [op |-> "moveconstruct", dst |-> p, src |-> q]
    /\ UNCHANGED <<heap, mem, frame, held, heapLimit, fault>>

\* operator=(MemoryPool&& other): p = std::move(q); this == &other does nothing
MoveAssign(p, q) ==
    /\ ~fault
    /\ Quiescent
    /\ poolState[p] = "alive"
    /\ poolState[q] = "alive"
    /\ IF p # q
       THEN /\ heap' = FreedHeap(allocatedChunks[p])
            /\ mem' = FreedMem(allocatedChunks[p])
            /\ held' = FreedHeld(allocatedChunks[p])
            /\ allocatedChunks' = [allocatedChunks EXCEPT
                                      ![p] = allocatedChunks[q],
                                      ![q] = MovedFromChunks(allocatedChunks[q])]
            /\ freeList' = [freeList EXCEPT ![p] = freeList[q],
                                            ![q] = MovedFromHead(freeList[q])]
            /\ blockSize' = [blockSize EXCEPT ![p] = blockSize[q],
                                              ![q] = MovedFromSize(blockSize[q])]
            /\ blockCount' = [blockCount EXCEPT ![p] = blockCount[q],
                                                ![q] = MovedFromSize(blockCount[q])]
            /\ freshAllocs' = [freshAllocs EXCEPT ![p] = -1, ![q] = -1]
            /\ acquired' = [acquired EXCEPT ![p] = acquired[q], ![q] = 0]
       ELSE UNCHANGED <<heap, mem, held, allocatedChunks, freeList,
                        blockSize, blockCount, freshAllocs, acquired>>
    /\ last' = [op |-> "moveassign", dst |-> p, src |-> q]
    /\ UNCHANGED <<poolState, frame, heapLimit, fault>>

\* ----------------------------------- concurrent growth: allocate calls only
InitGrow == InitHeap(GrowMaxChunks)

NextGrow ==
    \/ Construct(1, 1, SizeofNode, ConcBlockCount)
    \/ \E t \in Threads :
        \/ AllocateCall(t, 1, ConcMaxHeld)
        \/ Step(t)

SpecGrow == InitGrow /\ [][NextGrow]_vars

\* ------------------------- one thread, one pool, block sizes that fit a link
InitSeq == InitHeap(SeqMaxChunks)

NextSeq ==
    \/ \E bs \in SeqBlockSizes, bc \in BlockCounts : Construct(1, 1, bs, bc)
    \/ AllocateCall(1, 1, SeqMaxHeld)
    \/ \E b \in held[1] : DeallocateCall(1, 1, b)
    \/ \E b \in held[1] : UserWrite(1, 1, b)
    \/ Step(1)

SpecSeq == InitSeq /\ [][NextSeq]_vars

\* ------------- one thread, several pools constructed, moved and destroyed
InitLife == InitHeap(MaxChunks)

\* pool objects come into being in the order of their numbers
NextInLine(p) == \A q \in Pools : q < p => poolState[q] # "none"

NextLife ==
    \/ \E p \in Pools, bc \in 1..LifeMaxBlockCount :
          NextInLine(p) /\ Construct(1, p, bc * SizeofNode, bc)
    \/ \E p \in Pools : AllocateCall(1, p, LifeMaxHeld)
    \/ \E p \in Pools, b \in held[1] : DeallocateCall(1, p, b)
    \/ Step(1)
    \/ \E p \in Pools : Destroy(p)
    \/ \E p, q \in Pools : NextInLine(p) /\ MoveConstruct(p, q)
    \/ \E p, q \in Pools : MoveAssign(p, q)

SpecLife == InitLife /\ [][NextLife]_vars

\* ------- one thread, one pool, requested block sizes smaller than a link too
InitSmall == InitHeap(SeqMaxChunks)

NextSmall ==
    \/ \E bs \in SmallBlockSizes, bc \in BlockCounts : Construct(1, 1, bs, bc)
    \/ AllocateCall(1, 1, SeqMaxHeld)
    \/ \E b \in held[1] : DeallocateCall(1, 1, b)
    \/ \E b \in held[1] : UserWrite(1, 1, b)
    \/ Step(1)

SpecSmall == InitSmall /\ [][NextSmall]_vars

\* ---- one thread, pools constructed and moved, allocate on moved-from pools
\* A moved-from pool is still an object, and allocate may be called on it;
\* its blockSize and blockCount are 0, so the chunks it asks for are
\* malloc(0) and the heap serves more of them than the stack has frames.
InitMoved == InitHeap(MovedMaxChunks)

NextMoved ==
    \/ \E p \in Pools, bc \in 1..LifeMaxBlockCount :
          NextInLine(p) /\ Construct(1, p, bc * SizeofNode, bc)
    \/ \E p \in Pools : AllocateCall(1, p, LifeMaxHeld)
    \/ \E p \in Pools, b \in held[1] : DeallocateCall(1, p, b)
    \/ Step(1)
    \/ StackOverflow(1)
    \/ \E p, q \in Pools : NextInLine(p) /\ MoveConstruct(p, q)
    \/ \E p, q \in Pools : MoveAssign(p, q)

SpecMoved == InitMoved /\ [][NextMoved]_vars

\* ------------------------------------------------------------ the claims
\* is thread t inside allocateChunk, past a successful malloc?
InGrowth(t) ==
    \/ frame[t].pc \in {"C_pbread", "C_pbwrite", "C_loop"}
    \/ frame[t].pc \in {"D_load", "D_store", "D_cas"} /\ frame[t].ctx # "deallocate"

\* C1: with threads calling allocate and deallocate on one shared pool, each
\* deallocating only a block it holds, no block is held by two callers at
\* the same time and no block is both reachable from the free list and held.
C1_ExclusiveOwnership ==
    /\ \A t1, t2 \in Threads : t1 # t2 => held[t1] \cap held[t2] = {}
    /\ FreeBlocks(1) \cap HeldBlocks = {}

\* C2: once all threads have finished their allocate/deallocate calls, the
\* number of blocks reachable from the free-list head equals chunks acquired
\* times blockCount minus the number of blocks still held by callers (the
\* chunks counted are those whose growth step was not cut short by bad_alloc).
C2_FreeCountWhenDone ==
    (Quiescent /\ poolState[1] = "alive") =>
        Cardinality(FreeBlocks(1)) =
            Cardinality({c \in Chunks : ~heap[c].lost}) * blockCount[1]
                - Cardinality(HeldBlocks)

\* C3: in single-threaded use with valid pairing the number of owned chunks
\* never decreases, and between calls the free list holds
\* (chunks the pool has acquired) * blockCount - held blocks, the free blocks
\* and the held blocks being a partition of all blocks of all owned chunks.
C3_Between ==
    (frame[1].pc = "idle" /\ poolState[1] = "alive") =>
        /\ FreeListOK(1)
        /\ Cardinality(PoolBlocks(1)) = Len(allocatedChunks[1]) * blockCount[1]
        /\ Cardinality(FreeBlocks(1)) =
               Len(allocatedChunks[1]) * blockCount[1] - Cardinality(held[1])
        /\ FreeBlocks(1) \cap held[1] = {}
        /\ FreeBlocks(1) \cup held[1] = PoolBlocks(1)

C3_Conservation ==
    /\ []C3_Between
    /\ [][Len(allocatedChunks'[1]) >= Len(allocatedChunks[1])]_vars

\* a pool that has grown once, with blocks both free and held after a
\* deallocate
C3_Witness ==
    /\ frame[1].pc = "idle"
    /\ poolState[1] = "alive"
    /\ freshAllocs[1] = -1
    /\ Len(allocatedChunks[1]) = 2
    /\ held[1] # {}
    /\ FreeBlocks(1) # {}

\* C4: every allocate call that returns hands out a block that is none of
\* the blocks handed out before and not yet given back (so N calls in a row
\* return N pairwise distinct handles), and that block is chunk + i * blockSize,
\* 0 <= i < blockCount, of a chunk recorded in allocatedChunks.
C4_DistinctHandles ==
    [][\A t \in Threads :
          (frame[t].pc = "A_cas" /\ frame'[t].pc = "idle") =>
              /\ frame[t].head \notin held[t]
              /\ frame[t].head \in PoolBlocks(1)
              /\ held'[t] = held[t] \cup {frame[t].head}]_vars

\* three allocations in a row on a fresh pool, more than one chunk holds
C4_Witness ==
    /\ freshAllocs[1] = 3
    /\ Cardinality(held[1]) = 3
    /\ Len(allocatedChunks[1]) = 2

\* C5: on a freshly constructed pool with no deallocations, exactly
\* blockCount allocations leave 1 chunk acquired in total (the one of the
\* constructor) and blockCount + 1 allocations leave exactly 2.
C5_GrowthTrigger ==
    (frame[1].pc = "idle" /\ poolState[1] = "alive") =>
        /\ freshAllocs[1] \in 0..blockCount[1] => acquired[1] = 1
        /\ freshAllocs[1] = blockCount[1] + 1 => acquired[1] = 2

C5_Witness ==
    /\ frame[1].pc = "idle"
    /\ poolState[1] = "alive"
    /\ blockCount[1] = 2
    /\ freshAllocs[1] = blockCount[1] + 1
    /\ acquired[1] = 2

\* C6: a pool constructed with a block size smaller than one free-list link
\* stores the link size as its block size, so that no block's link overlaps
\* a neighbouring block's or runs past the end of its chunk.
C6_BlockSizeRaised ==
    \A p \in Pools :
        poolState[p] \in {"constructing", "alive"} =>
            /\ blockSize[p] >= SizeofNode
            /\ \A a \in DOMAIN mem : ~Overruns(a)
            /\ \A a, b \in DOMAIN mem : a < b => a + SizeofNode <= b

\* C7: when several threads run chunk growth at the same time, once all
\* growth steps have finished every chunk that was acquired appears exactly
\* once in allocatedChunks (a growth step cut short by bad_alloc in push_back
\* has not finished, and its chunk is not counted).
C7_ChunksRecorded ==
    (\A t \in Threads : ~InGrowth(t)) =>
        \A c \in Chunks :
            heap[c].lost \/ Cardinality({k \in DOMAIN allocatedChunks[1] :
                            allocatedChunks[1][k] = Base(c)}) = 1

\* C8: over construct, allocate, deallocate, move and destroy, every chunk
\* malloc has handed out is owned by at most one pool and freed at most once,
\* and once no pool is left every such chunk has been freed.
C8_ReleasedOnce ==
    /\ \A c \in Chunks :
          /\ heap[c].frees <= 1
          /\ heap[c].frees = 1 <=> heap[c].state = "freed"
          /\ heap[c].state = "live" =>
                Cardinality({p \in Pools : Base(c) \in Range(allocatedChunks[p])}) <= 1
    /\ (\A p \in Pools : poolState[p] \in {"none", "destroyed"}) =>
          \A c \in Chunks : heap[c].frees = 1

\* the part of C8 about who frees: a chunk is freed only by the destruction
\* of, or the move-assignment into, the pool that has it recorded, and never
\* a second time
C8_FreedByOwner ==
    [][\A c \in DOMAIN heap :
          heap'[c].frees > heap[c].frees =>
              /\ heap[c].frees = 0
              /\ Base(c) \in Range(allocatedChunks[last'.dst])
              /\ \/ last'.op = "destroy"
                 \/ last'.op = "moveassign" /\ last'.src # last'.dst]_vars

\* C9: after a move construction, or a move assignment from another pool,
\* the destination has the chunks, free-list head, block size and block
\* count the source had just before, and the source owns no chunk and has
\* an empty free list.
C9_MoveTransfers ==
    [][(last'.op \in {"moveconstruct", "moveassign"} /\ last'.src # last'.dst) =>
          /\ allocatedChunks'[last'.dst] = allocatedChunks[last'.src]
          /\ freeList'[last'.dst] = freeList[last'.src]
          /\ blockSize'[last'.dst] = blockSize[last'.src]
          /\ blockCount'[last'.dst] = blockCount[last'.src]
          /\ allocatedChunks'[last'.src] = <<>>
          /\ freeList'[last'.src] = Null]_vars

\* a move construction has just carried a chunk and a non-empty free list over
C9_Witness ==
    /\ last.op = "moveconstruct"
    /\ allocatedChunks[last.dst] # <<>>
    /\ freeList[last.dst] # Null
    /\ allocatedChunks[last.src] = <<>>

\* C10: when malloc fails in allocateChunk (called by allocate or by the
\* constructor) the call ends at once with bad_alloc thrown to its caller,
\* nothing is retried, and freeList and allocatedChunks are what they were.
C10_OutOfMemory ==
    [][\A t \in Threads :
          /\ (frame[t].pc = "C_malloc" /\ frame'[t] # frame[t] /\ heap' = heap) =>
                /\ frame'[t].pc = "threw"
                /\ freeList' = freeList
                /\ allocatedChunks' = allocatedChunks
          /\ (frame[t].pc = "threw" /\ frame'[t] # frame[t]) =>
                frame'[t].pc = "idle"]_vars

\* an allocate call on a live pool with a chunk has ended with bad_alloc
C10_Witness ==
    /\ frame[1].pc = "threw"
    /\ \E p \in Pools : poolState[p] = "alive" /\ allocatedChunks[p] # <<>>

\* C11: an allocate call made while no other thread runs, on any pool that
\* construct, allocate, deallocate and move have produced (a moved-from pool
\* included), goes on until it returns or throws bad_alloc, and a block it
\* has returned is not null and lies in a chunk recorded in allocatedChunks.
C11_AllocateTerminates ==
    /\ \A t \in Threads : frame[t].ctx = "allocate" => ENABLED Step(t)
    /\ \A t \in Threads : \A b \in held[t] :
          b # Null /\ \E p \in Pools : b \in PoolBlocks(p)

\* calls of allocateChunk made so far by the allocate call thread t is in:
\* those it has come back from, and the one in progress
GrowthsOf(t) ==
    frame[t].depth +
        (IF frame[t].pc \in {"C_malloc", "C_pbread", "C_pbwrite", "C_loop",
                             "D_load", "D_store", "D_cas"}
         THEN 1 ELSE 0)

\* C12: whatever the other threads' allocate and deallocate calls do, one
\* allocate call triggers chunk growth at most once before it returns.
C12_GrowthAtMostOnce ==
    \A t \in Threads : frame[t].ctx = "allocate" => GrowthsOf(t) <= 1

\* C13: with every thread's steps weakly fair, every allocate and deallocate
\* call of every thread eventually returns; no call waits for a lock or for
\* another thread (a call in progress always has a step to take); and a
\* compare-exchange is retried, in allocate's loop and in deallocate's, only
\* when the free-list head is no longer the one the thread had read.
C13_LockFreeProgress ==
    /\ \A t \in Threads : (frame[t].pc # "idle") ~> (frame[t].pc = "idle")
    /\ [](\A t \in Threads : frame[t].pc # "idle" => ENABLED Step(t))
    /\ [][\A t \in Threads :
             /\ (frame[t].pc = "A_cas" /\ frame'[t].pc = "A_read") =>
                    freeList[frame[t].self] # frame[t].head
             /\ (frame[t].pc = "D_cas" /\ frame'[t].pc = "D_store") =>
                    freeList[frame[t].self] # frame[t].head]_vars

\* C14: the free list is an atomic stack: whenever the compare-exchange of a
\* pop succeeds, the value it makes the new head is the popped block's next
\* link as memory holds it at that instant, not a link read earlier.
C14_AtomicStack ==
    [][\A t \in Threads :
          (frame[t].pc = "A_cas" /\ frame'[t].pc = "idle") =>
              /\ frame[t].head \in DOMAIN mem
              /\ freeList'[frame[t].self] = mem[frame[t].head]]_vars

\* the blocks of every chunk whose growth step has run to its end
GrownBlocks ==
    UNION {BlocksOf(Base(c), blockSize[1], blockCount[1]) :
           c \in {x \in Chunks : ~heap[x].lost}}

\* C15: with threads that only allocate, growth steps overlapping, once no
\* growth step is under way every block of every chunk acquired is either
\* reachable from the free list, exactly once, or held by exactly one caller,
\* and no block is ever returned that a caller already holds.
C15_GrowthPartition ==
    /\ []((poolState[1] = "alive" /\ \A t \in Threads : ~InGrowth(t)) =>
            /\ FreeListOK(1)
            /\ FreeBlocks(1) \cap HeldBlocks = {}
            /\ FreeBlocks(1) \cup HeldBlocks = GrownBlocks
            /\ \A t1, t2 \in Threads : t1 # t2 => held[t1] \cap held[t2] = {})
    /\ [][\A t \in Threads :
             (frame[t].pc = "A_cas" /\ frame'[t].pc = "idle") =>
                 frame[t].head \notin HeldBlocks]_vars

\* two growth steps have overlapped (one chunk's entry in allocatedChunks
\* was overwritten by the other's) and all calls are over, each thread
\* holding blocks
C15_Witness ==
    /\ Quiescent
    /\ poolState[1] = "alive"
    /\ Len(allocatedChunks[1]) < Cardinality({c \in Chunks : ~heap[c].lost})
    /\ \A t \in Threads : held[t] # {}

\* C16: in single-threaded use an allocate call that returns has acquired a
\* new chunk (exactly one) if the free list was empty when the call was
\* made and none otherwise, and while a call made on a non-empty free list
\* runs, the chunks owned and the chunks handed out by malloc stay as they are.
C16_GrowsIffEmpty ==
    [][/\ (frame[1].pc = "A_cas" /\ frame'[1].pc = "idle") =>
             frame[1].depth = (IF frame[1].start = Null THEN 1 ELSE 0)
       /\ (frame[1].ctx = "allocate" /\ frame[1].start # Null) =>
             /\ allocatedChunks' = allocatedChunks
             /\ heap' = heap]_vars

\* after a deallocate, calls have been served from the free list and others
\* have grown the pool: three chunks owned, all their blocks held
C16_Witness ==
    /\ frame[1].pc = "idle"
    /\ poolState[1] = "alive"
    /\ freshAllocs[1] = -1
    /\ Len(allocatedChunks[1]) = 3
    /\ held[1] = PoolBlocks(1)

\* C17: in a growth step the chunk is in allocatedChunks before any of its
\* blocks is pushed, so with a single grower every block that is on the free
\* list or held by a caller lies in a chunk recorded in allocatedChunks, in
\* every state, growth steps under way included.
C17_RecordedBeforePublished ==
    /\ [](poolState[1] \in {"constructing", "alive"} =>
             FreeBlocks(1) \cup held[1] \subseteq PoolBlocks(1))
    /\ [][(frame[1].pc = "D_cas" /\ frame[1].ctx # "deallocate" /\
            freeList' # freeList) =>
               frame[1].chunk \in Range(allocatedChunks[1])]_vars

\* a growth step inside allocate has pushed the first block of its chunk and
\* is still in its loop, while the caller holds a block of an earlier chunk
C17_Witness ==
    /\ frame[1].pc = "C_loop"
    /\ frame[1].ctx = "allocate"
    /\ frame[1].i = 1
    /\ blockCount[1] = 2
    /\ freeList[1] = frame[1].chunk
    /\ held[1] # {}

\* C18: in single-threaded use the free list is last-in-first-out.  A push
\* (by deallocate or by chunk growth) makes its block the head, linked to the
\* head before it; allocate returns the head as it is, the block pushed
\* before it becoming the head; so a call made on a non-empty list returns
\* the block that was the head when it was made (B, right after
\* deallocate(B)), a call that grew the pool returns the last block of the
\* new chunk, and the blocks of a fresh pool's chunk come out from the last
\* one down.
C18_LastInFirstOut ==
    /\ []((frame[1].pc = "idle" /\ poolState[1] = "alive" /\
            freshAllocs[1] \in 1..blockCount[1]) =>
              held[1] = {allocatedChunks[1][1] + (blockCount[1] - j) * blockSize[1] :
                            j \in 1..freshAllocs[1]})
    /\ [][/\ (frame[1].pc = "D_cas" /\ frame'[1].pc # "D_store") =>
                 /\ freeList'[1] = frame[1].node
                 /\ mem[frame[1].node] = freeList[1]
          /\ (frame[1].pc = "A_cas" /\ frame'[1].pc = "idle") =>
                 /\ held'[1] \ held[1] = {freeList[1]}
                 /\ freeList'[1] = mem[freeList[1]]
                 /\ (frame[1].start # Null => freeList[1] = frame[1].start)
                 /\ (frame[1].start = Null =>
                        freeList[1] = allocatedChunks[1][Len(allocatedChunks[1])]
                                         + (blockCount[1] - 1) * blockSize[1])]_vars

\* a block was given back and taken again, and the pool has grown: the
\* caller holds the first chunk's last block and the second chunk's last
\* block, the first chunk's first block being free
C18_Witness ==
    /\ frame[1].pc = "idle"
    /\ poolState[1] = "alive"
    /\ blockCount[1] = 2
    /\ freshAllocs[1] = -1
    /\ Len(allocatedChunks[1]) = 2
    /\ held[1] = {allocatedChunks[1][1] + blockSize[1],
                  allocatedChunks[1][2] + blockSize[1]}

\* C19: whatever the other threads do, a step of a deallocate call changes
\* nothing but the free-list head of its pool and the next link of the block
\* being freed: no chunk is acquired or released, and allocatedChunks,
\* blockSize, blockCount and the links of all other blocks stay as they are.
C19_DeallocateFrame ==
    [][\A t \in Threads :
          ((frame[t].ctx = "deallocate" \/ frame'[t].ctx = "deallocate") /\
           frame'[t] # frame[t]) =>
              LET f == IF frame[t].ctx = "deallocate" THEN frame[t] ELSE frame'[t]
              IN  /\ heap' = heap
                  /\ allocatedChunks' = allocatedChunks
                  /\ blockSize' = blockSize
                  /\ blockCount' = blockCount
                  /\ poolState' = poolState
                  /\ \A q \in Pools : q # f.self => freeList'[q] = freeList[q]
                  /\ \A a \in DOMAIN mem :
                        a # f.node => a \in DOMAIN mem' /\ mem'[a] = mem[a]]_vars

\* a deallocate call is about to retry its compare-exchange: another thread,
\* itself inside a call, has changed the head of a non-empty list since
C19_Witness ==
    /\ frame[1].ctx = "deallocate"
    /\ frame[1].pc = "D_cas"
    /\ frame[2].pc # "idle"
    /\ freeList[1] # Null
    /\ freeList[1] # frame[1].head
    /\ \E a \in DOMAIN mem : a # frame[1].node

====
